---- MODULE Spec2Model ----
(***************************************************************************)
(* Session lifecycle and conversation synchronisation of the ChatApp       *)
(* client, together with the remote store and the reply webhook it talks   *)
(* to. The repository holds two App components: the Apollo-based one       *)
(* (Spec, SpecSend, SpecSendLive, SpecGuard, SpecChats, SpecPolling,       *)
(* SpecAuth) and the nhost-based one (SpecNhost, SpecNhostChats,           *)
(* SpecNhostGuard).                                                        *)
(*                                                                         *)
(* One action is one handler run up to its next await, the React state     *)
(* updates it makes and the effects those updates trigger; a network call  *)
(* is a request in flight that the store answers in a step of its own and  *)
(* whose response is delivered in a later step, in any order.              *)
(***************************************************************************)
EXTENDS Integers, Sequences, FiniteSets, Bags, TLC

VARIABLES
    session,         \* App.session / App.user / App.apolloClient: "null" or "session"
    chats,           \* App.chats: the local chat list
    selectedChatId,  \* App.selectedChatId: 0 is null
    messages,        \* App.messages: the local message list
    loading,         \* App.loading: a send pipeline is running
    interval,        \* the setInterval handles that are set, each with the chat id it polls
    send,            \* the running handleSendMessage call: where it is suspended
    polls,           \* GET_MESSAGES queries in flight
    chatQueries,     \* GET_CHATS queries in flight
    chatCreates,     \* CREATE_CHAT mutations in flight
    dbChats,         \* remote store: the chats table
    dbMessages,      \* remote store: the messages table
    now,             \* remote store: the server clock
    storage,         \* localStorage: what the key 'nhost_session' holds
    clock,           \* Date.now()
    initializing,    \* App.initializing
    tokens,          \* the AuthSession App.session holds (its user is App.user)
    auth,            \* initializeAuth or the AuthService call awaited: where it is suspended
    form,            \* AuthForm.loading and AuthForm.error
    issued,          \* auth service: the number of sessions it has issued
    otherTab,        \* a second tab showing the App: its initializeAuth
    alert            \* the text of the last dialog window.alert has shown

\* The session lifecycle: the variables only SpecAuth changes.
authVars == <<storage, clock, initializing, tokens, auth, form, issued, otherTab>>

vars == <<session, chats, selectedChatId, messages, loading, interval, send,
          polls, chatQueries, chatCreates, dbChats, dbMessages, now,
          storage, clock, initializing, tokens, auth, form, issued, otherTab,
          alert>>

(***************************************************************************)
(* Bounds of the model.                                                    *)
(***************************************************************************)
MaxChats == 2
MaxMessages == 2
MaxQueries == 2

(***************************************************************************)
(* Values.                                                                 *)
(***************************************************************************)
NoSession == "null"
NoChatId == 0

\* The texts the send pipeline writes itself; a text is a sequence of pieces,
\* a piece " " being white space.
DefaultReply == <<"Sorry, I could not process your message.">>
FallbackText == <<"Sorry, the chatbot service is currently unavailable. Please try again later.">>
ErrorText == <<"Sorry, I encountered an error. Please try again.">>
ReplyText == <<"hi", " ", "there">>

\* What the user may have typed when the form is submitted.
Inputs == { <<>>, <<" ">>, <<"hello">>, <<" ", "hello", " ">> }

\* What the reply webhook may answer: its status, whether the body parses,
\* and the body's response field (<<>> when it is missing or empty).
WebhookOutcomes ==
    { [status |-> 200, json |-> TRUE,  response |-> ReplyText],
      [status |-> 200, json |-> TRUE,  response |-> <<>>],
      [status |-> 200, json |-> FALSE, response |-> <<>>],
      [status |-> 500, json |-> TRUE,  response |-> <<>>],
      [status |-> 503, json |-> TRUE,  response |-> <<>>],
      [status |-> 0,   json |-> FALSE, response |-> <<>>] }

\* No dialog has been shown, and the text handleCreateChat gives to alert().
NoAlert == ""
CreateChatFailed == "Failed to create new chat. Please try again."

NoMessage == [id |-> 0, chat_id |-> 0, content |-> <<>>, sender_type |-> "none", created_at |-> 0]
NoChat == [id |-> 0, created_at |-> 0, updated_at |-> 0]

\* handleSendMessage is not running. A running call holds the chat id and the
\* content it was called with, the webhook status it saw (0: no HTTP response,
\* none yet or fetch rejected), the state and the result of the mutation it
\* awaits, and the ids of the rows it has inserted; the status, the state of
\* the last mutation and the ids are kept when the call has returned.
Idle == [pc |-> "idle", chatId |-> NoChatId, content |-> <<>>, status |-> 0,
         st |-> "none", data |-> NoMessage, saved |-> <<>>]

(***************************************************************************)
(* Sessions and the credential store.                                      *)
(***************************************************************************)
\* A field that is undefined (missing from the parsed JSON), and a number
\* that is NaN; times and token numbers are positive.
Undefined == -1
NaN == -2

\* An object with the fields of an AuthSession: a session in memory, or the
\* parsed content of the storage key.
Object(accessToken, refreshToken, user, expiresAt) ==
    [kind |-> "object", accessToken |-> accessToken, refreshToken |-> refreshToken,
     user |-> user, expiresAt |-> expiresAt]

\* What is no object has a kind and no fields: the key that is not set, null,
\* a stored text JSON.parse rejects, the stored text 'null'.
Absent == [kind |-> "absent"]
NoTokens == [kind |-> "null"]
Unparseable == [kind |-> "unparseable"]
JsonNull == [kind |-> "jsonnull"]

\* A sign-out that leaves the key as it is.
KeepStored(stored) == stored

\* A sign-out that writes null under the key.
SignOutStoresNull(stored) == JsonNull

\* AuthService.signOut: localStorage.removeItem('nhost_session')
SignOut(stored) == Absent

\* No AuthService call is awaited and none has returned. call names the last
\* call made, a running refresh holds the refresh token it sent, and what
\* the last call returned is kept.
NoCall == [pc |-> "idle", call |-> "none", refreshToken |-> Undefined,
           returned |-> "none", error |-> "", result |-> NoTokens]

\* AuthForm as mounted.
NoForm == [loading |-> FALSE, error |-> ""]

\* No second tab is open. An open one holds the refresh token its
\* initializeAuth has sent while it awaits refreshSession.
NoTab == [pc |-> "closed", refreshToken |-> Undefined]

\* The App of Spec, SpecChats and the nhost-based specifications: nothing
\* stored, initializeAuth done; they sign in by handleAuth alone.
NoStoredSession ==
    /\ storage = Absent
    /\ clock = 1
    /\ initializing = FALSE
    /\ tokens = NoTokens
    /\ auth = NoCall
    /\ form = NoForm
    /\ issued = 0
    /\ otherTab = NoTab

(***************************************************************************)
(* Pure helpers.                                                           *)
(***************************************************************************)
RECURSIVE TrimStart(_)
TrimStart(s) ==
    IF s # <<>> /\ Head(s) = " " THEN TrimStart(Tail(s)) ELSE s

RECURSIVE TrimEnd(_)
TrimEnd(s) ==
    IF s # <<>> /\ s[Len(s)] = " " THEN TrimEnd(SubSeq(s, 1, Len(s) - 1)) ELSE s

\* String.prototype.trim
Trim(s) == TrimEnd(TrimStart(s))

\* where: { chat_id: { _eq: $chatId } }
RECURSIVE WhereChatId(_, _)
WhereChatId(rows, chatId) ==
    IF rows = <<>> THEN <<>>
    ELSE IF Head(rows).chat_id = chatId
         THEN <<Head(rows)>> \o WhereChatId(Tail(rows), chatId)
         ELSE WhereChatId(Tail(rows), chatId)

\* Inserts row into rows, which is ordered by created_at ascending.
RECURSIVE InsertByCreatedAt(_, _)
InsertByCreatedAt(row, rows) ==
    IF rows = <<>> THEN <<row>>
    ELSE IF row.created_at < Head(rows).created_at
         THEN <<row>> \o rows
         ELSE <<Head(rows)>> \o InsertByCreatedAt(row, Tail(rows))

\* order_by: { created_at: asc }
RECURSIVE OrderByCreatedAtAsc(_)
OrderByCreatedAtAsc(rows) ==
    IF rows = <<>> THEN <<>>
    ELSE InsertByCreatedAt(Head(rows), OrderByCreatedAtAsc(Tail(rows)))

\* Inserts row into rows, which is ordered by updated_at descending.
RECURSIVE InsertByUpdatedAt(_, _)
InsertByUpdatedAt(row, rows) ==
    IF rows = <<>> THEN <<row>>
    ELSE IF row.updated_at > Head(rows).updated_at
         THEN <<row>> \o rows
         ELSE <<Head(rows)>> \o InsertByUpdatedAt(row, Tail(rows))

\* order_by: { updated_at: desc }
RECURSIVE OrderByUpdatedAtDesc(_)
OrderByUpdatedAtDesc(rows) ==
    IF rows = <<>> THEN <<>>
    ELSE InsertByUpdatedAt(Head(rows), OrderByUpdatedAtDesc(Tail(rows)))

\* The GET_MESSAGES query, answered by the store.
GetMessages(chatId) == OrderByCreatedAtAsc(WhereChatId(dbMessages, chatId))

\* The GET_CHATS query, answered by the store.
GetChats == OrderByUpdatedAtDesc(dbChats)

ChatIds(list) == { list[i].id : i \in 1..Len(list) }

One(r) == SetToBag({r})

(***************************************************************************)
(* The effects of App that depend on [selectedChatId, apolloClient].       *)
(***************************************************************************)
\* A cleanup that clears nothing.
KeepInterval(handles) == handles

\* clearInterval, the cleanup of the polling effect
ClearInterval(handles) == <<>>

\* The polling effect: the cleanup of its last run, then a new timer when a
\* chat is selected and the client exists.
PollingEffect(handles, chatId, sess) ==
    IF chatId = NoChatId \/ sess = NoSession
    THEN ClearInterval(handles)
    ELSE Append(ClearInterval(handles), chatId)

\* loadMessages(chatId): one GET_MESSAGES query goes out.
LoadMessages(inflight, chatId) ==
    inflight (+) One([chatId |-> chatId, by |-> "load", st |-> "sent", data |-> <<>>])

\* The load-messages effect: the queries in flight after it ran.
LoadMessagesEffectPolls(inflight, chatId, sess) ==
    IF chatId # NoChatId /\ sess # NoSession
    THEN LoadMessages(inflight, chatId)
    ELSE inflight

\* The load-messages effect: the local list after it ran.
LoadMessagesEffectList(list, chatId, sess) ==
    IF chatId # NoChatId /\ sess # NoSession THEN list ELSE <<>>

\* Both effects, run because selectedChatId or apolloClient changed.
RunEffects(list, chatId, sess) ==
    /\ polls' = LoadMessagesEffectPolls(polls, chatId, sess)
    /\ messages' = LoadMessagesEffectList(list, chatId, sess)
    /\ interval' = PollingEffect(interval, chatId, sess)

\* There is room for one more query in flight.
QueryRoom == BagCardinality(polls) + BagCardinality(chatQueries) < MaxQueries

(***************************************************************************)
(* Initial state: App after construction, no stored session; the store of  *)
(* a user who has created two chats and sent nothing yet.                  *)
(***************************************************************************)
StoredChats ==
    << [id |-> 1, created_at |-> 1, updated_at |-> 1],
       [id |-> 2, created_at |-> 2, updated_at |-> 2] >>

Init ==
    /\ NoStoredSession
    /\ session = NoSession
    /\ chats = <<>>
    /\ selectedChatId = NoChatId
    /\ messages = <<>>
    /\ loading = FALSE
    /\ alert = NoAlert
    /\ interval = <<>>
    /\ send = Idle
    /\ polls = EmptyBag
    /\ chatQueries = EmptyBag
    /\ chatCreates = EmptyBag
    /\ dbChats = StoredChats
    /\ dbMessages = <<>>
    /\ now = 3

(***************************************************************************)
(* Session.                                                                *)
(***************************************************************************)
\* App.handleAuth, then the client-setup effect, the load-chats effect and
\* the two effects on [selectedChatId, apolloClient].
HandleAuth ==
    /\ UNCHANGED <<authVars, alert>>
    /\ session = NoSession
    /\ BagCardinality(polls) + BagCardinality(chatQueries) + 1
           + (IF selectedChatId # NoChatId THEN 1 ELSE 0) <= MaxQueries
    /\ session' = "session"
    /\ chatQueries' = chatQueries (+) One([by |-> "auth", st |-> "sent", data |-> <<>>])
    /\ RunEffects(messages, selectedChatId, "session")
    /\ UNCHANGED <<chats, selectedChatId, loading, send, chatCreates,
                   dbChats, dbMessages, now>>

\* App.handleSignOut, then the effects.
HandleSignOut ==
    /\ session # NoSession
    /\ storage' = SignOut(storage)
    /\ session' = NoSession
    /\ tokens' = NoTokens
    /\ UNCHANGED <<clock, initializing, auth, form, issued, otherTab>>
    /\ chats' = <<>>
    /\ selectedChatId' = NoChatId
    /\ RunEffects(<<>>, NoChatId, NoSession)
    /\ UNCHANGED <<loading, send, chatQueries, chatCreates, dbChats, dbMessages, now,
                   alert>>

(***************************************************************************)
(* Chat list.                                                              *)
(***************************************************************************)
\* The store answers a GET_CHATS query, or fails it.
ChatsServer(q) ==
    /\ UNCHANGED <<authVars, alert>>
    /\ q.st = "sent"
    /\ \E ok \in BOOLEAN :
         chatQueries' = (chatQueries (-) One(q)) (+)
             One(IF ok THEN [by |-> q.by, st |-> "ok", data |-> GetChats]
                       ELSE [by |-> q.by, st |-> "err", data |-> <<>>])
    /\ UNCHANGED <<session, chats, selectedChatId, messages, loading, interval,
                   send, polls, chatCreates, dbChats, dbMessages, now>>

\* App.loadChats after its await.
LoadChatsResponse(q) ==
    /\ UNCHANGED <<authVars, alert>>
    /\ q.by = "auth"
    /\ q.st # "sent"
    /\ chatQueries' = chatQueries (-) One(q)
    /\ chats' = IF q.st = "ok" THEN q.data ELSE chats
    /\ UNCHANGED <<session, selectedChatId, messages, loading, interval, send,
                   polls, chatCreates, dbChats, dbMessages, now>>

\* App.handleCreateChat up to its await.
HandleCreateChat ==
    /\ UNCHANGED <<authVars, alert>>
    /\ session # NoSession
    /\ Len(dbChats) + BagCardinality(chatCreates) < MaxChats
    /\ chatCreates' = chatCreates (+) One([prev |-> <<>>, st |-> "sent", data |-> NoChat])
    /\ UNCHANGED <<session, chats, selectedChatId, messages, loading, interval,
                   send, polls, chatQueries, dbChats, dbMessages, now>>

\* The store runs a CREATE_CHAT mutation, or fails it.
CreateChatServer(m) ==
    /\ UNCHANGED <<authVars, alert>>
    /\ m.st = "sent"
    /\ \E ok \in BOOLEAN :
         IF ok
         THEN LET row == [id |-> Len(dbChats) + 1, created_at |-> now, updated_at |-> now]
              IN  /\ dbChats' = Append(dbChats, row)
                  /\ now' = now + 1
                  /\ chatCreates' = (chatCreates (-) One(m)) (+)
                                        One([m EXCEPT !.st = "ok", !.data = row])
         ELSE /\ chatCreates' = (chatCreates (-) One(m)) (+) One([m EXCEPT !.st = "err"])
              /\ UNCHANGED <<dbChats, now>>
    /\ UNCHANGED <<session, chats, selectedChatId, messages, loading, interval,
                   send, polls, chatQueries, dbMessages>>

\* App.handleCreateChat after its await, then the effects.
CreateChatResponse(m) ==
    /\ UNCHANGED authVars
    /\ m.st # "sent"
    /\ chatCreates' = chatCreates (-) One(m)
    /\ IF m.st = "ok"
       THEN /\ session # NoSession => QueryRoom
            /\ chats' = <<m.data>> \o chats
            /\ selectedChatId' = m.data.id
            /\ RunEffects(messages, m.data.id, session)
            /\ UNCHANGED alert
       ELSE /\ alert' = CreateChatFailed
            /\ UNCHANGED <<chats, selectedChatId, messages, interval, polls>>
    /\ UNCHANGED <<session, loading, send, chatQueries, dbChats, dbMessages, now>>

\* ChatSidebar's onSelectChat, which is setSelectedChatId, then the effects.
SelectChat(chatId) ==
    /\ UNCHANGED <<authVars, alert>>
    /\ session # NoSession
    /\ chatId \in ChatIds(chats)
    /\ chatId # selectedChatId
    /\ QueryRoom
    /\ selectedChatId' = chatId
    /\ RunEffects(messages, chatId, session)
    /\ UNCHANGED <<session, chats, loading, send, chatQueries, chatCreates,
                   dbChats, dbMessages, now>>

(***************************************************************************)
(* Polling.                                                                *)
(***************************************************************************)
\* A tick of the i-th timer: loadMessages(chatId) up to its await.
Tick(i) ==
    /\ UNCHANGED <<authVars, alert>>
    /\ QueryRoom
    /\ polls' = LoadMessages(polls, interval[i])
    /\ UNCHANGED <<session, chats, selectedChatId, messages, loading, interval,
                   send, chatQueries, chatCreates, dbChats, dbMessages, now>>

\* The store answers a GET_MESSAGES query, or fails it.
MessagesServer(p) ==
    /\ UNCHANGED <<authVars, alert>>
    /\ p.st = "sent"
    /\ \E ok \in BOOLEAN :
         polls' = (polls (-) One(p)) (+)
             One(IF ok THEN [p EXCEPT !.st = "ok", !.data = GetMessages(p.chatId)]
                       ELSE [p EXCEPT !.st = "err"])
    /\ UNCHANGED <<session, chats, selectedChatId, messages, loading, interval,
                   send, chatQueries, chatCreates, dbChats, dbMessages, now>>

\* setMessages(data.messages) of loadMessages
ApplyMessages(p, list) == p.data

\* loadMessages with setMessages([]) in its catch block.
LoadMessagesResponseClearsOnError(p) ==
    /\ UNCHANGED <<authVars, alert>>
    /\ p.by = "load"
    /\ p.st # "sent"
    /\ polls' = polls (-) One(p)
    /\ messages' = IF p.st = "ok" THEN ApplyMessages(p, messages) ELSE <<>>
    /\ UNCHANGED <<session, chats, selectedChatId, loading, interval, send,
                   chatQueries, chatCreates, dbChats, dbMessages, now>>

\* App.loadMessages after its await.
LoadMessagesResponse(p) ==
    /\ UNCHANGED <<authVars, alert>>
    /\ p.by = "load"
    /\ p.st # "sent"
    /\ polls' = polls (-) One(p)
    /\ messages' = IF p.st = "ok" THEN ApplyMessages(p, messages) ELSE messages
    /\ UNCHANGED <<session, chats, selectedChatId, loading, interval, send,
                   chatQueries, chatCreates, dbChats, dbMessages, now>>

(***************************************************************************)
(* The send pipeline.                                                      *)
(***************************************************************************)
\* The condition of ChatArea.handleSubmit.
SubmitAccepts(input, busy) == Trim(input) # <<>> /\ ~busy

\* A guard of handleSendMessage that does not test the chat.
SendGuardWithoutChat == session # NoSession

\* The guard of App.handleSendMessage.
SendGuard == selectedChatId # NoChatId /\ session # NoSession

\* handleSendMessage awaits a CREATE_MESSAGE mutation for this text.
AwaitCreateMessage(s, pc, text) ==
    [s EXCEPT !.pc = pc, !.content = text, !.st = "sent", !.data = NoMessage]

\* The new message put first.
PrependMessage(list, m) == <<m>> \o list

\* setMessages(prevMessages => [...prevMessages, m])
AppendMessage(list, m) == Append(list, m)

\* The finally block: handleSendMessage returns.
Finished(s) == [Idle EXCEPT !.saved = s.saved, !.status = s.status, !.st = s.st]

\* ChatArea.handleSubmit, and App.handleSendMessage up to its first await.
\* The form is rendered when the selected chat is in the chat list.
HandleSubmit(input) ==
    /\ UNCHANGED <<authVars, alert>>
    /\ session # NoSession
    /\ selectedChatId \in ChatIds(chats)
    /\ Len(dbMessages) + 2 <= MaxMessages
    /\ IF SubmitAccepts(input, loading) /\ SendGuard
       THEN /\ loading' = TRUE
            /\ send' = AwaitCreateMessage(
                          [Idle EXCEPT !.chatId = selectedChatId], "user", Trim(input))
            /\ UNCHANGED <<session, chats, selectedChatId, messages, interval, polls,
                           chatQueries, chatCreates, dbChats, dbMessages, now>>
       ELSE UNCHANGED vars

\* The store runs the CREATE_MESSAGE mutation the pipeline awaits, or fails it.
CreateMessageServer ==
    /\ UNCHANGED <<authVars, alert>>
    /\ send.pc \in {"user", "bot", "fallback", "error"}
    /\ send.st = "sent"
    /\ \E ok \in BOOLEAN :
         IF ok
         THEN LET row == [id |-> Len(dbMessages) + 1,
                          chat_id |-> send.chatId,
                          content |-> send.content,
                          sender_type |-> IF send.pc = "user" THEN "user" ELSE "bot",
                          created_at |-> now]
              IN  /\ dbMessages' = Append(dbMessages, row)
                  /\ now' = now + 1
                  /\ send' = [send EXCEPT !.st = "ok", !.data = row,
                                          !.saved = Append(@, row.id)]
         ELSE /\ send' = [send EXCEPT !.st = "err"]
              /\ UNCHANGED <<dbMessages, now>>
    /\ UNCHANGED <<session, chats, selectedChatId, messages, loading, interval,
                   polls, chatQueries, chatCreates, dbChats>>

\* handleSendMessage after the user message's mutation: the append and the
\* webhook call, or the catch block.
UserMessageResponse ==
    /\ UNCHANGED <<authVars, alert>>
    /\ send.pc = "user"
    /\ send.st # "sent"
    /\ IF send.st = "ok"
       THEN /\ messages' = AppendMessage(messages, send.data)
            /\ send' = [send EXCEPT !.pc = "webhook", !.st = "none", !.data = NoMessage]
       ELSE /\ send' = AwaitCreateMessage(send, "error", ErrorText)
            /\ UNCHANGED messages
    /\ UNCHANGED <<session, chats, selectedChatId, loading, interval, polls,
                   chatQueries, chatCreates, dbChats, dbMessages, now>>

\* botResponseData.response || 'Sorry, I could not process your message.'
BotMessage(o) == IF o.response # <<>> THEN o.response ELSE DefaultReply

\* handleSendMessage after the webhook call: the branch on webhookResponse.ok,
\* or the catch block when fetch or json() throws.
WebhookResponse(o) ==
    /\ UNCHANGED <<authVars, alert>>
    /\ send.pc = "webhook"
    /\ send' = IF o.status = 0 \/ (o.status = 200 /\ ~o.json)
               THEN AwaitCreateMessage([send EXCEPT !.status = o.status], "error", ErrorText)
               ELSE IF o.status = 200
               THEN AwaitCreateMessage([send EXCEPT !.status = o.status], "bot", BotMessage(o))
               ELSE AwaitCreateMessage([send EXCEPT !.status = o.status], "fallback", FallbackText)
    /\ UNCHANGED <<session, chats, selectedChatId, messages, loading, interval, polls,
                   chatQueries, chatCreates, dbChats, dbMessages, now>>

\* A bot message's mutation succeeded and the catch block runs all the same.
BotMessageResponseThenCatch ==
    /\ UNCHANGED <<authVars, alert>>
    /\ send.pc \in {"bot", "fallback"}
    /\ send.st # "sent"
    /\ messages' = IF send.st = "ok" THEN Append(messages, send.data) ELSE messages
    /\ send' = [send EXCEPT !.pc = "error", !.content = ErrorText, !.st = "sent",
                            !.data = NoMessage]
    /\ UNCHANGED <<session, chats, selectedChatId, loading, interval, polls,
                   chatQueries, chatCreates, dbChats, dbMessages, now>>

\* handleSendMessage after the mutation of the reply or of the fallback
\* message: the append and the finally block, or the catch block.
BotMessageResponse ==
    /\ UNCHANGED <<authVars, alert>>
    /\ send.pc \in {"bot", "fallback"}
    /\ send.st # "sent"
    /\ IF send.st = "ok"
       THEN /\ messages' = AppendMessage(messages, send.data)
            /\ send' = Finished(send)
            /\ loading' = FALSE
       ELSE /\ send' = AwaitCreateMessage(send, "error", ErrorText)
            /\ UNCHANGED <<messages, loading>>
    /\ UNCHANGED <<session, chats, selectedChatId, interval, polls,
                   chatQueries, chatCreates, dbChats, dbMessages, now>>

\* The catch block after its mutation, and the finally block.
ErrorMessageResponse ==
    /\ UNCHANGED <<authVars, alert>>
    /\ send.pc = "error"
    /\ send.st # "sent"
    /\ messages' = IF send.st = "ok" THEN AppendMessage(messages, send.data) ELSE messages
    /\ send' = Finished(send)
    /\ loading' = FALSE
    /\ UNCHANGED <<session, chats, selectedChatId, interval, polls,
                   chatQueries, chatCreates, dbChats, dbMessages, now>>

Next ==
    \/ HandleAuth
    \/ HandleSignOut
    \/ \E q \in BagToSet(chatQueries) : ChatsServer(q)
    \/ \E q \in BagToSet(chatQueries) : LoadChatsResponse(q)
    \/ \E c \in ChatIds(chats) : SelectChat(c)
    \/ \E i \in 1..Len(interval) : Tick(i)
    \/ \E p \in BagToSet(polls) : MessagesServer(p)
    \/ \E p \in BagToSet(polls) : LoadMessagesResponse(p)
    \/ \E input \in Inputs : HandleSubmit(input)
    \/ CreateMessageServer
    \/ UserMessageResponse
    \/ \E o \in WebhookOutcomes : WebhookResponse(o)
    \/ BotMessageResponse
    \/ ErrorMessageResponse

Spec == Init /\ [][Next]_vars

(***************************************************************************)
(* The send pipeline with the store of a user who has one chat.            *)
(***************************************************************************)
InitSend ==
    /\ NoStoredSession
    /\ session = NoSession
    /\ chats = <<>>
    /\ selectedChatId = NoChatId
    /\ messages = <<>>
    /\ loading = FALSE
    /\ alert = NoAlert
    /\ interval = <<>>
    /\ send = Idle
    /\ polls = EmptyBag
    /\ chatQueries = EmptyBag
    /\ chatCreates = EmptyBag
    /\ dbChats = <<StoredChats[1]>>
    /\ dbMessages = <<>>
    /\ now = 2

SpecSend == InitSend /\ [][Next]_vars

(***************************************************************************)
(* handleSendMessage called in any state of the App, whatever is rendered: *)
(* the guard at its entry. The model holds one call at a time.             *)
(***************************************************************************)
\* What handleSendMessage may be called with.
Contents == { Trim(input) : input \in Inputs }

\* The call has returned at the guard: st tells so, nothing else changes.
ReturnedAtGuard(s) == [s EXCEPT !.st = "guard"]

\* App.handleSendMessage up to its first await, or to the return of its guard.
HandleSendMessage(content) ==
    /\ UNCHANGED <<authVars, alert>>
    /\ send.pc = "idle"
    /\ Len(dbMessages) + 2 <= MaxMessages
    /\ IF SendGuard
       THEN /\ loading' = TRUE
            /\ send' = AwaitCreateMessage(
                          [Idle EXCEPT !.chatId = selectedChatId], "user", content)
       ELSE /\ send' = ReturnedAtGuard(send)
            /\ UNCHANGED loading
    /\ UNCHANGED <<session, chats, selectedChatId, messages, interval, polls,
                   chatQueries, chatCreates, dbChats, dbMessages, now>>

NextGuard ==
    \/ Next
    \/ \E content \in Contents : HandleSendMessage(content)

SpecGuard == InitSend /\ [][NextGuard]_vars

\* What the send pipeline can count on: the store settles every mutation
\* (the promise of apolloClient.mutate resolves or rejects), and the code
\* after an await runs once its promise has settled. The fetch of the reply
\* webhook is given no signal and no timer: nothing settles its promise
\* when the webhook does not answer, so its answer is not counted on.
SendFairness ==
    /\ WF_vars(CreateMessageServer)
    /\ WF_vars(UserMessageResponse)
    /\ WF_vars(BotMessageResponse)
    /\ WF_vars(ErrorMessageResponse)

SpecSendLive == InitSend /\ [][Next]_vars /\ SendFairness

(***************************************************************************)
(* The chat list on its own: the store of a new user, chats being created, *)
(* no message sent.                                                        *)
(***************************************************************************)
InitChats ==
    /\ NoStoredSession
    /\ session = NoSession
    /\ chats = <<>>
    /\ selectedChatId = NoChatId
    /\ messages = <<>>
    /\ loading = FALSE
    /\ alert = NoAlert
    /\ interval = <<>>
    /\ send = Idle
    /\ polls = EmptyBag
    /\ chatQueries = EmptyBag
    /\ chatCreates = EmptyBag
    /\ dbChats = <<>>
    /\ dbMessages = <<>>
    /\ now = 1

NextChats ==
    \/ HandleAuth
    \/ HandleSignOut
    \/ \E q \in BagToSet(chatQueries) : ChatsServer(q)
    \/ \E q \in BagToSet(chatQueries) : LoadChatsResponse(q)
    \/ HandleCreateChat
    \/ \E m \in BagToSet(chatCreates) : CreateChatServer(m)
    \/ \E m \in BagToSet(chatCreates) : CreateChatResponse(m)
    \/ \E c \in ChatIds(chats) : SelectChat(c)
    \/ \E i \in 1..Len(interval) : Tick(i)
    \/ \E p \in BagToSet(polls) : MessagesServer(p)
    \/ \E p \in BagToSet(polls) : LoadMessagesResponse(p)

SpecChats == InitChats /\ [][NextChats]_vars

(***************************************************************************)
(* Polling on its own: the store of a user who has two chats and has had   *)
(* an exchange in the first; chats are selected and polled, nothing is     *)
(* sent.                                                                   *)
(***************************************************************************)
StoredMessages ==
    << [id |-> 1, chat_id |-> 1, content |-> <<"hello">>, sender_type |-> "user",
        created_at |-> 3],
       [id |-> 2, chat_id |-> 1, content |-> ReplyText, sender_type |-> "bot",
        created_at |-> 4] >>

InitPolling ==
    /\ NoStoredSession
    /\ session = NoSession
    /\ chats = <<>>
    /\ selectedChatId = NoChatId
    /\ messages = <<>>
    /\ loading = FALSE
    /\ alert = NoAlert
    /\ interval = <<>>
    /\ send = Idle
    /\ polls = EmptyBag
    /\ chatQueries = EmptyBag
    /\ chatCreates = EmptyBag
    /\ dbChats = StoredChats
    /\ dbMessages = StoredMessages
    /\ now = 5

NextPolling ==
    \/ HandleAuth
    \/ HandleSignOut
    \/ \E q \in BagToSet(chatQueries) : ChatsServer(q)
    \/ \E q \in BagToSet(chatQueries) : LoadChatsResponse(q)
    \/ \E c \in ChatIds(chats) : SelectChat(c)
    \/ \E i \in 1..Len(interval) : Tick(i)
    \/ \E p \in BagToSet(polls) : MessagesServer(p)
    \/ \E p \in BagToSet(polls) : LoadMessagesResponse(p)

SpecPolling == InitPolling /\ [][NextPolling]_vars

(***************************************************************************)
(* The nhost-based App component (ApiService, the second App, ChatArea).   *)
(* Its state is held in the same variables: session is isAuthenticated     *)
(* and user ("signingOut" while handleSignOut awaits), selectedChatId is    *)
(* the id of currentChat, loading is isSendingMessage. It has no           *)
(* load-messages effect; its polling effect depends on [currentChat,       *)
(* isAuthenticated]. ApiService reads the access token when it sends a     *)
(* request; without one the store rejects the request.                     *)
(***************************************************************************)
\* The polling effect of the nhost-based App.
NhostPollingEffect(handles, chatId, sess) ==
    IF chatId = NoChatId \/ sess = NoSession
    THEN ClearInterval(handles)
    ELSE Append(ClearInterval(handles), chatId)

\* ApiService.graphqlRequest sends a request: with no access token it is
\* rejected.
Sent(sess) == IF sess = NoSession THEN "err" ELSE "sent"

\* apiService.getMessages(chatId) up to its await.
ApiGetMessages(inflight, chatId, by) ==
    inflight (+) One([chatId |-> chatId, by |-> by, st |-> Sent(session), data |-> <<>>])

\* handleAuthSuccess up to the await of loadChats, then the polling effect.
HandleAuthSuccess ==
    /\ UNCHANGED <<authVars, alert>>
    /\ session = NoSession
    /\ QueryRoom
    /\ session' = "session"
    /\ chatQueries' = chatQueries (+) One([by |-> "auth", st |-> "sent", data |-> <<>>])
    /\ interval' = NhostPollingEffect(interval, selectedChatId, "session")
    /\ UNCHANGED <<chats, selectedChatId, messages, loading, send, polls,
                   chatCreates, dbChats, dbMessages, now>>

\* handleSignOut (nhost-based) up to the await of nhost.auth.signOut().
NhostSignOutStart ==
    /\ UNCHANGED <<authVars, alert>>
    /\ session = "session"
    /\ session' = "signingOut"
    /\ UNCHANGED <<chats, selectedChatId, messages, loading, interval, send, polls,
                   chatQueries, chatCreates, dbChats, dbMessages, now>>

\* handleSignOut (nhost-based) after its await, then the polling effect.
NhostSignOutDone ==
    /\ UNCHANGED <<authVars, alert>>
    /\ session = "signingOut"
    /\ session' = NoSession
    /\ chats' = <<>>
    /\ selectedChatId' = NoChatId
    /\ messages' = <<>>
    /\ interval' = NhostPollingEffect(interval, NoChatId, NoSession)
    /\ UNCHANGED <<loading, send, polls, chatQueries, chatCreates,
                   dbChats, dbMessages, now>>

\* loadChats (nhost-based) after its await, called by handleAuthSuccess.
NhostLoadChatsResponse(q) ==
    /\ UNCHANGED <<authVars, alert>>
    /\ q.by = "auth"
    /\ q.st # "sent"
    /\ chatQueries' = chatQueries (-) One(q)
    /\ chats' = IF q.st = "ok" THEN q.data ELSE chats
    /\ UNCHANGED <<session, selectedChatId, messages, loading, interval, send,
                   polls, chatCreates, dbChats, dbMessages, now>>

\* handleNewChat up to its await; the closure holds the chat list of this render.
HandleNewChat ==
    /\ UNCHANGED <<authVars, alert>>
    /\ session # NoSession
    /\ Len(dbChats) + BagCardinality(chatCreates) < MaxChats
    /\ chatCreates' = chatCreates (+) One([prev |-> chats, st |-> "sent", data |-> NoChat])
    /\ UNCHANGED <<session, chats, selectedChatId, messages, loading, interval,
                   send, polls, chatQueries, dbChats, dbMessages, now>>

\* handleNewChat after its await, then the polling effect.
NewChatResponse(m) ==
    /\ UNCHANGED <<authVars, alert>>
    /\ m.st # "sent"
    /\ chatCreates' = chatCreates (-) One(m)
    /\ IF m.st = "ok"
       THEN /\ chats' = <<m.data>> \o m.prev
            /\ selectedChatId' = m.data.id
            /\ messages' = <<>>
            /\ interval' = NhostPollingEffect(interval, m.data.id, session)
       ELSE UNCHANGED <<chats, selectedChatId, messages, interval>>
    /\ UNCHANGED <<session, loading, send, polls, chatQueries, dbChats, dbMessages, now>>

\* handleChatSelect up to its await, then the polling effect.
HandleChatSelect(chatId) ==
    /\ UNCHANGED <<authVars, alert>>
    /\ session # NoSession
    /\ chatId \in ChatIds(chats)
    /\ QueryRoom
    /\ selectedChatId' = chatId
    /\ interval' = NhostPollingEffect(interval, chatId, session)
    /\ polls' = ApiGetMessages(polls, chatId, "select")
    /\ UNCHANGED <<session, chats, messages, loading, send, chatQueries,
                   chatCreates, dbChats, dbMessages, now>>

\* handleChatSelect after its await.
ChatSelectResponse(p) ==
    /\ UNCHANGED <<authVars, alert>>
    /\ p.by = "select"
    /\ p.st # "sent"
    /\ polls' = polls (-) One(p)
    /\ messages' = IF p.st = "ok" THEN p.data ELSE <<>>
    /\ UNCHANGED <<session, chats, selectedChatId, loading, interval, send,
                   chatQueries, chatCreates, dbChats, dbMessages, now>>

\* A tick of the i-th timer of the nhost-based App, up to its await.
NhostTick(i) ==
    /\ UNCHANGED <<authVars, alert>>
    /\ QueryRoom
    /\ polls' = ApiGetMessages(polls, interval[i], "tick")
    /\ UNCHANGED <<session, chats, selectedChatId, messages, loading, interval,
                   send, chatQueries, chatCreates, dbChats, dbMessages, now>>

\* The polling callback of the nhost-based App after its await.
NhostTickResponse(p) ==
    /\ UNCHANGED <<authVars, alert>>
    /\ p.by = "tick"
    /\ p.st # "sent"
    /\ polls' = polls (-) One(p)
    /\ messages' = IF p.st = "ok" THEN p.data ELSE messages
    /\ UNCHANGED <<session, chats, selectedChatId, loading, interval, send,
                   chatQueries, chatCreates, dbChats, dbMessages, now>>

\* The guard of handleSendMessage (nhost-based).
NhostSendGuard == selectedChatId # NoChatId /\ ~loading

\* handleSendMessage (nhost-based) awaits a request of ApiService.
NhostAwait(s, pc) == [s EXCEPT !.pc = pc, !.st = Sent(session), !.data = NoMessage]

\* ChatArea.handleSubmit (nhost-based) and handleSendMessage up to its first
\* await. The form is rendered when a chat is current.
NhostHandleSubmit(input) ==
    /\ UNCHANGED <<authVars, alert>>
    /\ session # NoSession
    /\ selectedChatId # NoChatId
    /\ Len(dbMessages) + 2 <= MaxMessages
    /\ IF SubmitAccepts(input, loading) /\ NhostSendGuard
       THEN /\ loading' = TRUE
            /\ send' = NhostAwait([Idle EXCEPT !.chatId = selectedChatId,
                                               !.content = Trim(input)], "user")
            /\ UNCHANGED <<session, chats, selectedChatId, messages, interval, polls,
                           chatQueries, chatCreates, dbChats, dbMessages, now>>
       ELSE UNCHANGED vars

\* handleSendMessage (nhost-based) after apiService.sendMessage: the append
\* and updateChatTimestamp, or the catch and the finally block.
NhostUserMessageResponse ==
    /\ UNCHANGED <<authVars, alert>>
    /\ send.pc = "user"
    /\ send.st # "sent"
    /\ IF send.st = "ok"
       THEN /\ messages' = AppendMessage(messages, send.data)
            /\ send' = NhostAwait(send, "touch")
            /\ UNCHANGED loading
       ELSE /\ send' = Finished(send)
            /\ loading' = FALSE
            /\ UNCHANGED messages
    /\ UNCHANGED <<session, chats, selectedChatId, interval, polls,
                   chatQueries, chatCreates, dbChats, dbMessages, now>>

\* SetUpdatedAt(rows, chatId, t): _set: {updated_at: "now()"} on the row chatId.
SetUpdatedAt(rows, chatId, t) ==
    [i \in 1..Len(rows) |->
        IF rows[i].id = chatId THEN [rows[i] EXCEPT !.updated_at = t] ELSE rows[i]]

\* The store runs the update_chats_by_pk mutation, or fails it.
UpdateChatServer ==
    /\ UNCHANGED <<authVars, alert>>
    /\ send.pc = "touch"
    /\ send.st = "sent"
    /\ \E ok \in BOOLEAN :
         IF ok
         THEN /\ dbChats' = SetUpdatedAt(dbChats, send.chatId, now)
              /\ now' = now + 1
              /\ send' = [send EXCEPT !.st = "ok"]
         ELSE /\ send' = [send EXCEPT !.st = "err"]
              /\ UNCHANGED <<dbChats, now>>
    /\ UNCHANGED <<session, chats, selectedChatId, messages, loading, interval,
                   polls, chatQueries, chatCreates, dbMessages>>

\* handleSendMessage (nhost-based) after updateChatTimestamp: sendToChatbot,
\* or the catch and the finally block.
UpdateChatResponse ==
    /\ UNCHANGED <<authVars, alert>>
    /\ send.pc = "touch"
    /\ send.st # "sent"
    /\ IF send.st = "ok"
       THEN /\ send' = [send EXCEPT !.pc = "chatbot", !.st = "none"]
            /\ UNCHANGED loading
       ELSE /\ send' = Finished(send)
            /\ loading' = FALSE
    /\ UNCHANGED <<session, chats, selectedChatId, messages, interval, polls,
                   chatQueries, chatCreates, dbChats, dbMessages, now>>

\* handleSendMessage (nhost-based) after sendToChatbot, whose response is
\* not read: loadChats, or the catch and the finally block when fetch rejects.
ChatbotResponse(o) ==
    /\ UNCHANGED <<authVars, alert>>
    /\ send.pc = "chatbot"
    /\ IF o.status # 0
       THEN /\ BagCardinality(chatQueries) < MaxQueries
            /\ send' = [send EXCEPT !.pc = "reload", !.status = o.status]
            /\ chatQueries' = chatQueries (+)
                                 One([by |-> "send", st |-> Sent(session), data |-> <<>>])
            /\ UNCHANGED loading
       ELSE /\ send' = Finished([send EXCEPT !.st = "err"])
            /\ loading' = FALSE
            /\ UNCHANGED chatQueries
    /\ UNCHANGED <<session, chats, selectedChatId, messages, interval, polls,
                   chatCreates, dbChats, dbMessages, now>>

\* loadChats after its await, called by handleSendMessage, and the finally block.
ReloadChatsResponse(q) ==
    /\ UNCHANGED <<authVars, alert>>
    /\ q.by = "send"
    /\ q.st # "sent"
    /\ send.pc = "reload"
    /\ chatQueries' = chatQueries (-) One(q)
    /\ chats' = IF q.st = "ok" THEN q.data ELSE chats
    /\ send' = Finished([send EXCEPT !.st = "ok"])
    /\ loading' = FALSE
    /\ UNCHANGED <<session, selectedChatId, messages, interval, polls,
                   chatCreates, dbChats, dbMessages, now>>

\* The nhost-based App with the store of Init: sessions, chat selection,
\* polling and the send pipeline.
NextNhost ==
    \/ HandleAuthSuccess
    \/ NhostSignOutStart
    \/ NhostSignOutDone
    \/ \E q \in BagToSet(chatQueries) : ChatsServer(q)
    \/ \E q \in BagToSet(chatQueries) : NhostLoadChatsResponse(q)
    \/ \E c \in ChatIds(chats) : HandleChatSelect(c)
    \/ \E p \in BagToSet(polls) : ChatSelectResponse(p)
    \/ \E i \in 1..Len(interval) : NhostTick(i)
    \/ \E p \in BagToSet(polls) : MessagesServer(p)
    \/ \E p \in BagToSet(polls) : NhostTickResponse(p)
    \/ \E input \in Inputs : NhostHandleSubmit(input)
    \/ CreateMessageServer
    \/ NhostUserMessageResponse
    \/ UpdateChatServer
    \/ UpdateChatResponse
    \/ \E o \in WebhookOutcomes : ChatbotResponse(o)
    \/ \E q \in BagToSet(chatQueries) : ReloadChatsResponse(q)

SpecNhost == Init /\ [][NextNhost]_vars

\* The nhost-based App with the store of a new user: chats being created and
\* selected, no message sent.
NextNhostChats ==
    \/ HandleAuthSuccess
    \/ NhostSignOutStart
    \/ NhostSignOutDone
    \/ \E q \in BagToSet(chatQueries) : ChatsServer(q)
    \/ \E q \in BagToSet(chatQueries) : NhostLoadChatsResponse(q)
    \/ HandleNewChat
    \/ \E m \in BagToSet(chatCreates) : CreateChatServer(m)
    \/ \E m \in BagToSet(chatCreates) : NewChatResponse(m)
    \/ \E c \in ChatIds(chats) : HandleChatSelect(c)
    \/ \E p \in BagToSet(polls) : ChatSelectResponse(p)
    \/ \E i \in 1..Len(interval) : NhostTick(i)
    \/ \E p \in BagToSet(polls) : MessagesServer(p)
    \/ \E p \in BagToSet(polls) : NhostTickResponse(p)

SpecNhostChats == InitChats /\ [][NextNhostChats]_vars

\* handleSendMessage (nhost-based) called in any state of the App, up to its
\* first await or to the return of its guard; one call at a time.
NhostHandleSendMessage(content) ==
    /\ UNCHANGED <<authVars, alert>>
    /\ send.pc = "idle"
    /\ Len(dbMessages) + 2 <= MaxMessages
    /\ IF NhostSendGuard
       THEN /\ loading' = TRUE
            /\ send' = NhostAwait([Idle EXCEPT !.chatId = selectedChatId,
                                               !.content = content], "user")
       ELSE /\ send' = ReturnedAtGuard(send)
            /\ UNCHANGED loading
    /\ UNCHANGED <<session, chats, selectedChatId, messages, interval, polls,
                   chatQueries, chatCreates, dbChats, dbMessages, now>>

NextNhostGuard ==
    \/ NextNhost
    \/ \E content \in Contents : NhostHandleSendMessage(content)

SpecNhostGuard == InitSend /\ [][NextNhostGuard]_vars

(***************************************************************************)
(* The session lifecycle of the Apollo-based App: AuthService, the         *)
(* initializeAuth effect, AuthForm, sign-out, the page being reloaded.     *)
(* Time is counted in units of 150 seconds.                                *)
(***************************************************************************)
MaxClock == 4
MaxSessions == 2

\* 300000 ms: initializeAuth refreshes a session that expires sooner.
RefreshWindow == 2

\* The texts of AuthService and AuthForm.
SignInFailed == "Sign in failed"
SignUpFailed == "Sign up failed"
NoSessionReturned == "No session returned"
SignInNetworkError == "Network error during sign in"
SignUpNetworkError == "Network error during sign up"
PasswordsDoNotMatch == "Passwords do not match"
PasswordTooShort == "Password must be at least 6 characters"
InvalidCredentials == "Invalid email or password"

\* a <= b and a < b of JavaScript, on numbers: false when a is undefined or NaN.
LessEq(a, b) == a \notin {Undefined, NaN} /\ a <= b
LessThan(a, b) == a \notin {Undefined, NaN} /\ a < b

\* JSON.stringify(session): NaN is written as null, which compares as 0.
Stringify(sess) ==
    IF sess.kind = "object" /\ sess.expiresAt = NaN THEN [sess EXCEPT !.expiresAt = 0]
    ELSE sess

\* getStoredSession with the expiry test 'expiresAt < Date.now()'.
GetStoredSessionStrict(stored, t) ==
    IF stored.kind # "object" THEN NoTokens
    ELSE IF LessThan(stored.expiresAt, t) THEN NoTokens
    ELSE stored

\* AuthService.getStoredSession: null for a key that is not set, for a text
\* that does not parse (catch) and for the text 'null' (reading a field of
\* null throws); else null when expiresAt <= Date.now(), else the parsed value.
GetStoredSession(stored, t) ==
    IF stored.kind = "absent" THEN NoTokens
    ELSE IF stored.kind = "unparseable" THEN NoTokens
    ELSE IF stored.kind = "jsonnull" THEN NoTokens
    ELSE IF LessEq(stored.expiresAt, t) THEN NoTokens
    ELSE stored

\* needsRefresh of initializeAuth: storedSession.expiresAt - Date.now() < 300000
NeedsRefresh(sess, t) ==
    sess.expiresAt \notin {Undefined, NaN} /\ sess.expiresAt - t < RefreshWindow

\* What an auth endpoint may answer: the status (0: fetch rejects), whether
\* the body parses, the session in it ("nouser": a session without user),
\* its accessTokenExpiresIn and the message of an error body.
ExpiresIn == {1, 3, Undefined}

AuthOutcomes ==
    { [status |-> 200, json |-> TRUE, session |-> "full", expiresIn |-> e, message |-> ""] :
          e \in ExpiresIn }
    \cup
    { [status |-> 200, json |-> TRUE,  session |-> "nouser", expiresIn |-> 3, message |-> ""],
      [status |-> 200, json |-> TRUE,  session |-> "none", expiresIn |-> Undefined, message |-> ""],
      [status |-> 200, json |-> FALSE, session |-> "none", expiresIn |-> Undefined, message |-> ""],
      [status |-> 401, json |-> TRUE,  session |-> "none", expiresIn |-> Undefined,
       message |-> InvalidCredentials],
      [status |-> 401, json |-> TRUE,  session |-> "none", expiresIn |-> Undefined, message |-> ""],
      [status |-> 500, json |-> FALSE, session |-> "none", expiresIn |-> Undefined, message |-> ""],
      [status |-> 0,   json |-> FALSE, session |-> "none", expiresIn |-> Undefined, message |-> ""] }

\* The session object the three AuthService calls build from data.session,
\* the n-th session the auth service issues.
NewSession(o, n, t) ==
    Object(n, 10 + n, 1, IF o.expiresIn = Undefined THEN NaN ELSE t + o.expiresIn)

\* What a call of AuthService returns: a session, an error text or null; or
\* it throws.
Returns(returned, error, result) ==
    [returned |-> returned, error |-> error, result |-> result]

\* The try block of signIn and of signUp; failed is the error text they use
\* when a non-2xx body carries no message.
AuthBody(o, n, t, failed) ==
    IF o.status = 0 \/ ~o.json THEN Returns("thrown", "", NoTokens)
    ELSE IF o.status # 200
    THEN Returns("error", IF o.message # "" THEN o.message ELSE failed, NoTokens)
    ELSE IF o.session = "none" THEN Returns("error", NoSessionReturned, NoTokens)
    ELSE IF o.session = "nouser" THEN Returns("thrown", "", NoTokens)
    ELSE Returns("session", "", NewSession(o, n, t))

\* A try block without its catch.
NoCatch(r, error) == r

\* catch (error) { return { error: '...' } }
Catch(r, error) ==
    IF r.returned = "thrown" THEN Returns("error", error, NoTokens) ELSE r

\* AuthService.signIn and AuthService.signUp
SignIn(o, n, t) == Catch(AuthBody(o, n, t, SignInFailed), SignInNetworkError)
SignUp(o, n, t) == Catch(AuthBody(o, n, t, SignUpFailed), SignUpNetworkError)

\* AuthService.refreshSession: the session, or null.
RefreshSession(o, n, t) ==
    IF o.status = 0 \/ ~o.json THEN Returns("null", "", NoTokens)
    ELSE IF o.status = 200 /\ o.session = "full" THEN Returns("session", "", NewSession(o, n, t))
    ELSE Returns("null", "", NoTokens)

\* localStorage.setItem on every return.
PersistAlways(stored, r) == Stringify(r.result)

\* localStorage.setItem('nhost_session', JSON.stringify(session)), which the
\* three calls reach only when they return a session.
Persist(stored, r) ==
    IF r.returned = "session" THEN Stringify(r.result) ELSE stored

\* What the storage key may hold when the page is loaded at time 1: nothing,
\* a text that is not JSON, the text 'null', the session of an earlier visit
\* (expired, expiring at this instant, expiring within the refresh window,
\* expiring later), or an object that lacks a field of a session.
StoredValues ==
    { Absent, Unparseable, JsonNull }
    \cup { Object(9, 19, 1, e) : e \in 0..(1 + RefreshWindow) }
    \cup { Object(9, 19, 1, Undefined),
           Object(Undefined, 19, 1, 1 + RefreshWindow),
           Object(9, 19, Undefined, 1 + RefreshWindow) }

\* App as constructed: initializeAuth has not run yet.
Mounted == [NoCall EXCEPT !.pc = "init"]

InitAuth ==
    /\ session = NoSession
    /\ chats = <<>>
    /\ selectedChatId = NoChatId
    /\ messages = <<>>
    /\ loading = FALSE
    /\ alert = NoAlert
    /\ interval = <<>>
    /\ send = Idle
    /\ polls = EmptyBag
    /\ chatQueries = EmptyBag
    /\ chatCreates = EmptyBag
    /\ dbChats = StoredChats
    /\ dbMessages = <<>>
    /\ now = 3
    /\ storage \in StoredValues
    /\ clock = 1
    /\ initializing = TRUE
    /\ tokens = NoTokens
    /\ auth = Mounted
    /\ form = NoForm
    /\ issued = 0
    /\ otherTab = NoTab

\* The user is shown the chat screen: the render guard 'if (!user || !session)'.
Authenticated ==
    session # NoSession /\ tokens.kind = "object" /\ tokens.user # Undefined

\* setSession(sess) and setUser(sess.user), then the client-setup effect, the
\* load-chats effect and the two effects on [selectedChatId, apolloClient].
SetSession(sess) ==
    /\ BagCardinality(polls) + BagCardinality(chatQueries) + 1
           + (IF selectedChatId # NoChatId THEN 1 ELSE 0) <= MaxQueries
    /\ session' = "session"
    /\ tokens' = sess
    /\ chatQueries' = chatQueries (+) One([by |-> "auth", st |-> "sent", data |-> <<>>])
    /\ RunEffects(messages, selectedChatId, "session")
    /\ UNCHANGED <<chats, selectedChatId, loading, send, chatCreates,
                   dbChats, dbMessages, now, alert>>

\* Nothing of the conversation state and of the store changes.
NoSessionSet ==
    UNCHANGED <<session, tokens, chats, selectedChatId, messages, loading, interval,
                send, polls, chatQueries, chatCreates, dbChats, dbMessages, now, alert>>

\* initializeAuth up to its await, or to its end when it does not refresh.
InitializeAuth ==
    /\ auth.pc = "init"
    /\ LET storedSession == GetStoredSession(storage, clock)
       IN  IF storedSession = NoTokens
           THEN /\ initializing' = FALSE
                /\ auth' = NoCall
                /\ NoSessionSet
           ELSE IF NeedsRefresh(storedSession, clock)
           THEN /\ auth' = [NoCall EXCEPT !.pc = "refresh", !.call = "refresh",
                                          !.refreshToken = storedSession.refreshToken]
                /\ NoSessionSet
                /\ UNCHANGED initializing
           ELSE /\ SetSession(storedSession)
                /\ initializing' = FALSE
                /\ auth' = NoCall
    /\ UNCHANGED <<storage, clock, form, issued, otherTab>>

\* initializeAuth with setInitializing(false) moved into the branch that
\* sets the refreshed session.
RefreshResponseReturnsEarly(o) ==
    /\ auth.pc = "refresh"
    /\ o.session = "full" => issued < MaxSessions
    /\ LET r == RefreshSession(o, issued + 1, clock)
       IN  /\ auth' = [NoCall EXCEPT !.call = "refresh", !.returned = r.returned,
                                     !.result = r.result]
           /\ IF r.returned = "session"
              THEN /\ storage' = Persist(storage, r)
                   /\ SetSession(r.result)
                   /\ initializing' = FALSE
              ELSE /\ storage' = SignOut(Persist(storage, r))
                   /\ NoSessionSet
                   /\ UNCHANGED initializing
    /\ issued' = IF o.session = "full" THEN issued + 1 ELSE issued
    /\ UNCHANGED <<clock, form, otherTab>>

\* initializeAuth after the await of refreshSession: the refreshed session
\* is set, or AuthService.signOut() is called.
RefreshResponse(o) ==
    /\ auth.pc = "refresh"
    /\ o.session = "full" => issued < MaxSessions
    /\ LET r == RefreshSession(o, issued + 1, clock)
       IN  /\ auth' = [NoCall EXCEPT !.call = "refresh", !.returned = r.returned,
                                     !.result = r.result]
           /\ IF r.returned = "session"
              THEN /\ storage' = Persist(storage, r)
                   /\ SetSession(r.result)
              ELSE /\ storage' = SignOut(Persist(storage, r))
                   /\ NoSessionSet
    /\ issued' = IF o.session = "full" THEN issued + 1 ELSE issued
    /\ initializing' = FALSE
    /\ UNCHANGED <<clock, form, otherTab>>

\* What the user has typed into AuthForm when it is submitted.
FormInputs == {"ok", "short", "mismatch"}

\* AuthForm.handleSubmit up to its await, or to its return when the password
\* is rejected. The form is rendered when App is not initializing and not
\* authenticated; its button is disabled while it is loading.
FormSubmit(isSignUp, input) ==
    /\ ~initializing
    /\ ~Authenticated
    /\ ~form.loading
    /\ IF isSignUp /\ input = "mismatch"
       THEN /\ form' = [loading |-> FALSE, error |-> PasswordsDoNotMatch]
            /\ UNCHANGED auth
       ELSE IF input = "short"
       THEN /\ form' = [loading |-> FALSE, error |-> PasswordTooShort]
            /\ UNCHANGED auth
       ELSE /\ form' = [loading |-> TRUE, error |-> ""]
            /\ auth' = [NoCall EXCEPT !.pc = IF isSignUp THEN "signUp" ELSE "signIn",
                                      !.call = IF isSignUp THEN "signUp" ELSE "signIn"]
    /\ NoSessionSet
    /\ UNCHANGED <<storage, clock, initializing, issued, otherTab>>

\* AuthForm.handleSubmit after its await: signIn or signUp has returned;
\* setError, or onAuth, which is App.handleAuth; then the finally block.
AuthResponse(o) ==
    /\ auth.pc \in {"signIn", "signUp"}
    /\ o.session = "full" => issued < MaxSessions
    /\ LET r == IF auth.pc = "signIn" THEN SignIn(o, issued + 1, clock)
                                     ELSE SignUp(o, issued + 1, clock)
       IN  /\ auth' = [NoCall EXCEPT !.call = auth.call, !.returned = r.returned,
                                     !.error = r.error, !.result = r.result]
           /\ storage' = Persist(storage, r)
           /\ IF r.returned = "session"
              THEN /\ SetSession(r.result)
                   /\ form' = [loading |-> FALSE, error |-> ""]
              ELSE /\ NoSessionSet
                   /\ form' = [loading |-> FALSE, error |-> r.error]
    /\ issued' = IF o.session = "full" THEN issued + 1 ELSE issued
    /\ UNCHANGED <<clock, initializing, otherTab>>

\* The sign-out button of the chat screen.
SignOutClicked == Authenticated /\ HandleSignOut

\* A second tab is opened on the App: its initializeAuth up to its await, or
\* to its end when it does not refresh. The tabs share localStorage and the
\* auth service; the React state of the second tab is its own.
OtherTabInitializeAuth ==
    /\ otherTab.pc = "closed"
    /\ LET storedSession == GetStoredSession(storage, clock)
       IN  otherTab' = IF storedSession # NoTokens /\ NeedsRefresh(storedSession, clock)
                       THEN [pc |-> "refresh", refreshToken |-> storedSession.refreshToken]
                       ELSE [pc |-> "open", refreshToken |-> Undefined]
    /\ NoSessionSet
    /\ UNCHANGED <<storage, clock, initializing, auth, form, issued>>

\* initializeAuth of the second tab after the await of refreshSession.
OtherTabRefreshResponse(o) ==
    /\ otherTab.pc = "refresh"
    /\ o.session = "full" => issued < MaxSessions
    /\ LET r == RefreshSession(o, issued + 1, clock)
       IN  storage' = IF r.returned = "session" THEN Persist(storage, r)
                      ELSE SignOut(Persist(storage, r))
    /\ issued' = IF o.session = "full" THEN issued + 1 ELSE issued
    /\ otherTab' = [pc |-> "open", refreshToken |-> Undefined]
    /\ NoSessionSet
    /\ UNCHANGED <<clock, initializing, auth, form>>

\* Time passes.
Advance ==
    /\ clock < MaxClock
    /\ clock' = clock + 1
    /\ UNCHANGED <<session, chats, selectedChatId, messages, loading, interval, send,
                   polls, chatQueries, chatCreates, dbChats, dbMessages, now,
                   storage, initializing, tokens, auth, form, issued, otherTab, alert>>

\* The page is loaded again: App is constructed anew, the requests of the
\* old page are gone, localStorage and the services keep their state.
Reload ==
    /\ auth.pc # "init"
    /\ session' = NoSession
    /\ chats' = <<>>
    /\ selectedChatId' = NoChatId
    /\ messages' = <<>>
    /\ loading' = FALSE
    /\ interval' = <<>>
    /\ send' = Idle
    /\ polls' = EmptyBag
    /\ chatQueries' = EmptyBag
    /\ chatCreates' = EmptyBag
    /\ initializing' = TRUE
    /\ tokens' = NoTokens
    /\ auth' = Mounted
    /\ form' = NoForm
    /\ alert' = NoAlert
    /\ UNCHANGED <<dbChats, dbMessages, now, storage, clock, issued, otherTab>>

NextAuth ==
    \/ InitializeAuth
    \/ \E o \in AuthOutcomes : RefreshResponse(o)
    \/ \E isSignUp \in BOOLEAN, input \in FormInputs : FormSubmit(isSignUp, input)
    \/ \E o \in AuthOutcomes : AuthResponse(o)
    \/ SignOutClicked
    \/ \E q \in BagToSet(chatQueries) : ChatsServer(q)
    \/ \E q \in BagToSet(chatQueries) : LoadChatsResponse(q)
    \/ OtherTabInitializeAuth
    \/ \E o \in AuthOutcomes : OtherTabRefreshResponse(o)
    \/ Advance
    \/ Reload

SpecAuth == InitAuth /\ [][NextAuth]_vars

(***************************************************************************)
(* Properties.                                                             *)
(***************************************************************************)
\* The rows the running (or the last) send has inserted with this sender type.
SavedBy(senderType) ==
    { i \in 1..Len(send.saved) : dbMessages[send.saved[i]].sender_type = senderType }

\* handleSendMessage has returned from a call that persisted its user message.
SendDone == send.pc = "idle" /\ SavedBy("user") # {}

\* The GET_MESSAGES queries in flight for a chat.
InFlightFor(chatId) ==
    BagCardinality([p \in { q \in BagToSet(polls) : q.chatId = chatId } |-> polls[p]])

\* C1 as stated: every send that persisted its user message has persisted
\* exactly one user message and exactly one bot message when it returns,
\* whatever the webhook and the bot-message mutations did.
C1_ExactlyOneBotMessage ==
    SendDone => Cardinality(SavedBy("user")) = 1 /\ Cardinality(SavedBy("bot")) = 1

\* C1 as amended: a send never persists two user or two bot messages; when it
\* returns after persisting its user message it has persisted one bot
\* message if its last bot-message mutation succeeded, and none if that
\* mutation (the catch block's, swallowed) failed.
C1_AtMostOneBotMessage ==
    /\ Cardinality(SavedBy("user")) <= 1
    /\ Cardinality(SavedBy("bot")) <= 1
    /\ SendDone => Cardinality(SavedBy("bot")) = (IF send.st = "ok" THEN 1 ELSE 0)

\* A send returned with its user message and one bot message persisted,
\* after its first bot-message mutation had failed.
C1_Witness ==
    /\ SendDone
    /\ Cardinality(SavedBy("bot")) = 1
    /\ send.status = 200
    /\ dbMessages[send.saved[2]].content = ErrorText

\* C2: the local message list never holds two entries with the same id.
C2_NoDuplicateIds ==
    \A i, j \in 1..Len(messages) : i # j => messages[i].id # messages[j].id

\* C3: applying a GET_MESSAGES response that was issued for a chat that is
\* not the selected one any more, or before a sign-out, leaves the local
\* message list as it is.
C3_StaleResponseDiscarded ==
    [][\A p \in BagToSet(polls) :
          (LoadMessagesResponse(p) /\ (p.chatId # selectedChatId \/ session = NoSession))
              => messages' = messages]_vars

\* C4: at most one GET_MESSAGES query is in flight for the selected chat.
C4_OnePollInFlight ==
    selectedChatId # NoChatId => InFlightFor(selectedChatId) <= 1

\* C5: a step that deactivates the selected chat leaves no timer for it, and
\* every step that issues a GET_MESSAGES query issues it for the chat that is
\* selected after the step.
C5_NoTickAfterDeactivation ==
    [][/\ selectedChatId' # selectedChatId =>
            \A i \in 1..Len(interval') : interval'[i] # selectedChatId
       /\ \A c \in ChatIds(dbChats) :
            InFlightFor(c)' > InFlightFor(c) => c = selectedChatId'
      ]_vars

\* Chat 2 is selected and polled after chat 1 was, a query for chat 1 being
\* still in flight.
C5_Witness ==
    /\ selectedChatId = 2
    /\ interval = <<2>>
    /\ InFlightFor(1) = 1
    /\ InFlightFor(2) = 1

\* C6: at most one timer exists, it polls the selected chat, and it exists
\* whenever a chat is selected in a session.
C6_OneTimer ==
    /\ Len(interval) <= 1
    /\ \A i \in 1..Len(interval) : interval[i] = selectedChatId
    /\ (selectedChatId # NoChatId /\ session # NoSession) => Len(interval) = 1

\* Chat 1, which holds messages, is selected again after chat 2 was; a
\* query for chat 2 is still in flight.
C6_Witness ==
    /\ selectedChatId = 1
    /\ Len(interval) = 1
    /\ InFlightFor(2) = 1
    /\ InFlightFor(1) = 1
    /\ \E i \in 1..Len(dbMessages) : dbMessages[i].chat_id = 1

\* C7: the local message list is ordered by created_at ascending.
C7_SortedByCreatedAt ==
    \A i, j \in 1..Len(messages) :
        i < j => messages[i].created_at <= messages[j].created_at

\* The local list holds the user message and the bot message of a send.
C7_Witness ==
    /\ Len(messages) = 2
    /\ messages[1].sender_type = "user"
    /\ messages[2].sender_type = "bot"
    /\ messages[1].created_at < messages[2].created_at

\* C8: a send whose webhook call failed (no response, 500 or 503) has
\* persisted exactly one bot message when it returns, and that message
\* carries the fallback text. Stated for the sends whose last mutation
\* succeeded, so that a failing store is not what refutes it.
C8_FallbackOnWebhookFailure ==
    (SendDone /\ send.status \in {0, 500, 503} /\ send.st = "ok") =>
        /\ Cardinality(SavedBy("bot")) = 1
        /\ \A i \in SavedBy("bot") : dbMessages[send.saved[i]].content = FallbackText

\* C9: past the user message's mutation the pipeline runs only if that
\* mutation has persisted the user message.
C9_AbortOnUserMessageFailure ==
    send.pc \in {"webhook", "bot", "fallback", "error"} => SavedBy("user") # {}

\* C10: where the form can be submitted, a submit is accepted exactly when
\* the content is not empty after trimming and no send is in flight for
\* the selected chat.
C10_SingleFlightPerChat ==
    (session # NoSession /\ selectedChatId \in ChatIds(chats)) =>
        \A input \in Inputs :
            (SubmitAccepts(input, loading) /\ SendGuard)
                <=> (Trim(input) # <<>>
                       /\ ~(send.pc # "idle" /\ send.chatId = selectedChatId))

\* C11: in the nhost-based App, when updateChatTimestamp has failed the send
\* pipeline goes on to call the reply webhook.
C11_TouchFailureDoesNotAbort ==
    [][(send.pc = "touch" /\ send.st = "err" /\ send' # send)
           => send'.pc = "chatbot"]_vars

\* C12: when a send has returned, every chat is at least as recent as the
\* messages the send persisted for it: updated_at was bumped to the time of
\* the insert or later.
C12_UpdatedAtBumped ==
    send.pc = "idle" =>
        \A i \in 1..Len(send.saved) : \A c \in 1..Len(dbChats) :
            dbChats[c].id = dbMessages[send.saved[i]].chat_id
                => dbChats[c].updated_at >= dbMessages[send.saved[i]].created_at

\* C13: a 2xx webhook response whose body parses and has no usable response
\* field makes the pipeline persist the fallback text.
C13_MalformedBodyFallsBack ==
    [][\A o \in WebhookOutcomes :
          (o.status = 200 /\ o.json /\ o.response = <<>> /\ WebhookResponse(o))
              => send'.content = FallbackText]_vars

\* The steps of a send leave the session, the chat list and the selected
\* chat as they are.
SendFrame ==
    /\ session' = session
    /\ chats' = chats
    /\ selectedChatId' = selectedChatId

\* C14: a send whose webhook call answered a non-success status has appended
\* the fallback message or, when persisting it failed, no bot message at all.
C14_NoReplyWhenFallbackFails ==
    (send.pc = "idle" /\ send.status \in {500, 503}) =>
        \A i \in SavedBy("bot") : dbMessages[send.saved[i]].content = FallbackText

\* What the code does when persisting the fallback message fails: the catch
\* block makes one more attempt, with the error text; when that attempt
\* fails too, handleSendMessage returns with loading cleared and nothing
\* appended. Neither step touches the session, the chat list or the
\* selected chat.
FailuresSwallowed ==
    [][/\ (send.pc = "fallback" /\ send.st = "err" /\ send' # send) =>
             /\ send'.pc = "error"
             /\ send'.content = ErrorText
             /\ messages' = messages
             /\ SendFrame
       /\ (send.pc = "error" /\ send.st = "err" /\ send' # send) =>
             /\ send'.pc = "idle"
             /\ loading' = FALSE
             /\ messages' = messages
             /\ SendFrame
      ]_vars

\* A stored value or a session that has every field of an AuthSession.
WellFormed(v) ==
    /\ v.kind = "object"
    /\ v.accessToken # Undefined
    /\ v.refreshToken # Undefined
    /\ v.user # Undefined
    /\ v.expiresAt # Undefined

\* C15: for the stored record and the time of every reachable state,
\* getStoredSession returns null when the record's expiresAt <= now, and the
\* record when it is well-formed and expiresAt > now.
C15_ExpiredIsAbsent ==
    /\ (storage.kind = "object" /\ LessEq(storage.expiresAt, clock))
           => GetStoredSession(storage, clock) = NoTokens
    /\ (WellFormed(storage) /\ storage.expiresAt > clock)
           => GetStoredSession(storage, clock) = storage

\* initializeAuth has run on a stored session that expires at this very
\* instant, and has set no session.
C15_Witness ==
    /\ ~initializing
    /\ auth = NoCall
    /\ WellFormed(storage)
    /\ storage.expiresAt = clock
    /\ session = NoSession

\* C16: once initializeAuth has run, a stored value that is not a
\* well-formed session is reported absent, and the session shown as
\* authenticated is a well-formed one.
C16_MalformedIsAbsent ==
    ~initializing =>
        /\ ~WellFormed(storage) => GetStoredSession(storage, clock) = NoTokens
        /\ Authenticated => WellFormed(tokens)

\* A signIn that the endpoint rejected has returned: the status was not 2xx
\* and the body carried the error.
RejectedSignIn ==
    /\ auth.pc = "idle"
    /\ auth.call = "signIn"
    /\ auth.returned = "error"
    /\ auth.error \in {InvalidCredentials, SignInFailed}

\* C17 as stated: after a rejected signIn the storage key holds no record.
C17_NoRecordAfterRejectedSignIn ==
    RejectedSignIn => storage = Absent

\* C17 as amended: a signIn the endpoint rejects returns an error value and
\* leaves the storage key as it was before the call.
C17_RejectedSignInWritesNothing ==
    [][\A o \in AuthOutcomes :
          (auth.pc = "signIn" /\ o.status \notin {0, 200} /\ o.json /\ AuthResponse(o))
              => /\ auth'.returned = "error"
                 /\ auth'.error # ""
                 /\ storage' = storage]_vars

\* A rejected signIn has returned and the key still holds the expired
\* session of an earlier visit.
C17_Witness ==
    /\ RejectedSignIn
    /\ WellFormed(storage)
    /\ LessEq(storage.expiresAt, clock)

\* C18: whatever the endpoint answers, signIn and signUp return a session or
\* an error value with a message, and the storage key is written, with the
\* returned session, only when a session is returned.
C18_SignInNeverThrows ==
    [][(auth.pc \in {"signIn", "signUp"} /\ auth'.pc = "idle") =>
          /\ auth'.returned \in {"session", "error"}
          /\ auth'.returned = "error" => (auth'.error # "" /\ storage' = storage)
          /\ auth'.returned = "session" =>
                (WellFormed(auth'.result) /\ storage' = Stringify(auth'.result))
      ]_vars

\* signUp has returned the error value of its catch block, and signIn
\* reaches every other kind of return.
C18_Witness ==
    /\ auth.pc = "idle"
    /\ auth.call = "signUp"
    /\ auth.returned = "error"
    /\ auth.error = SignUpNetworkError
    /\ form.error = SignUpNetworkError
    /\ ~form.loading

\* C19: while the App holds a session, a refresh is under way when the
\* session expires in less than five minutes, and only then.
C19_RefreshWhenExpiring ==
    /\ (session # NoSession /\ LessThan(tokens.expiresAt, clock + RefreshWindow))
           => auth.pc = "refresh"
    /\ auth.pc = "refresh" => LessThan(storage.expiresAt, clock + RefreshWindow)

\* C20: a refreshSession that fails returns null; initializeAuth then
\* removes the stored session and ends with no session set; and a refresh is
\* only ever issued by initializeAuth, for the unexpired session the storage
\* key holds, so none is issued again for the removed one.
C20_FailedRefreshSignsOut ==
    [][/\ \A o \in AuthOutcomes :
            (RefreshResponse(o) /\ (o.status # 200 \/ ~o.json \/ o.session # "full"))
                => auth'.returned = "null"
       /\ (auth.pc = "refresh" /\ auth'.pc = "idle" /\ auth'.returned = "null") =>
            /\ storage' = Absent
            /\ session' = NoSession
            /\ tokens' = NoTokens
            /\ ~initializing'
       /\ (auth'.pc = "refresh" /\ auth.pc # "refresh") =>
            /\ auth.pc = "init"
            /\ GetStoredSession(storage', clock') # NoTokens
            /\ auth'.refreshToken = storage'.refreshToken
      ]_vars

\* A refresh has failed: nothing is stored, no session is set, the form is shown.
C20_Witness ==
    /\ auth.pc = "idle"
    /\ auth.call = "refresh"
    /\ auth.returned = "null"
    /\ storage = Absent
    /\ session = NoSession
    /\ ~initializing

\* C21: no two refresh network calls are in flight at the same time for the
\* same session, that is, with the same refresh token.
C21_RefreshSerialized ==
    (auth.pc = "refresh" /\ otherTab.pc = "refresh")
        => auth.refreshToken # otherTab.refreshToken

\* A step in which AuthService.signOut is called: by handleSignOut, or by
\* initializeAuth, in either tab, when refreshSession has returned null.
SignOutCalled ==
    \/ HandleSignOut
    \/ \E o \in AuthOutcomes :
          /\ RefreshSession(o, issued + 1, clock).returned # "session"
          /\ RefreshResponse(o) \/ OtherTabRefreshResponse(o)

\* C22: whatever the key held, after a signOut call it holds nothing and
\* getStoredSession returns null; a call made when the key holds nothing,
\* as after an earlier call, changes nothing.
C22_SignOutIdempotent ==
    [][SignOutCalled =>
          /\ storage' = Absent
          /\ GetStoredSession(storage', clock') = NoTokens
          /\ storage = Absent => storage' = storage
      ]_vars

\* The user has signed in, which stored the session, and has then signed out.
C22_Witness ==
    /\ auth.pc = "idle"
    /\ auth.call = "signIn"
    /\ auth.returned = "session"
    /\ session = NoSession
    /\ storage = Absent

\* The AuthForm is shown and is not waiting for an answer.
Anonymous == ~initializing /\ ~Authenticated /\ ~form.loading

\* App shows its loading screen only while initializeAuth runs, and AuthForm
\* is loading only while it awaits signIn or signUp.
TransientOnlyWhileAwaiting ==
    /\ initializing => auth.pc \in {"init", "refresh"}
    /\ form.loading => auth.pc \in {"signIn", "signUp"}

\* C23: the step that ends the round trip of a refresh, of a signIn or of a
\* signUp, whatever the answer, clears initializing and loading and leaves
\* the App authenticated or anonymous; an initializeAuth that does not
\* refresh ends at once; and neither flag is set without a call awaited.
C23_TransientStatesLeft ==
    /\ []TransientOnlyWhileAwaiting
    /\ [][/\ (auth.pc \in {"refresh", "signIn", "signUp"} /\ auth'.pc = "idle") =>
                /\ ~initializing'
                /\ ~form'.loading
                /\ Authenticated' \/ Anonymous'
          /\ (auth.pc = "init" /\ auth'.pc # "init") =>
                auth'.pc = "refresh" \/ (~initializing' /\ (Authenticated' \/ Anonymous'))
         ]_vars

\* initializeAuth has refreshed the stored session and the chat screen is shown.
C23_Witness ==
    /\ auth.pc = "idle"
    /\ auth.call = "refresh"
    /\ auth.returned = "session"
    /\ Authenticated
    /\ ~initializing
    /\ ~form.loading

\* The bearer token the Apollo client sends, fixed when the client was made
\* from the session, is missing or has expired.
BearerRejected ==
    /\ tokens.kind = "object"
    /\ tokens.accessToken = Undefined \/ LessEq(tokens.expiresAt, clock)

\* C24: when loadChats learns that the store has failed its query while the
\* bearer token is missing or expired, a session refresh is started and the
\* query is in flight once more.
C24_RefreshAndRetryOnAuthError ==
    [][\A q \in BagToSet(chatQueries) :
          (LoadChatsResponse(q) /\ q.st = "err" /\ BearerRejected) =>
              /\ auth'.pc = "refresh"
              /\ \E again \in BagToSet(chatQueries') : again.st = "sent"
      ]_vars

\* The selected chat is the first element of the local chat list.
ActiveChatFirst ==
    /\ selectedChatId # NoChatId
    /\ chats # <<>>
    /\ chats[1].id = selectedChatId

\* C25: the step that applies a successful CREATE_CHAT response makes the new
\* chat the first element of the chat list and the selected chat, with an
\* empty message list; and a chat-list response applied after it leaves the
\* selected chat first in the list.
C25_NewChatFirstAndActive ==
    [][/\ \A m \in BagToSet(chatCreates) :
            (CreateChatResponse(m) /\ m.st = "ok") =>
                /\ ActiveChatFirst'
                /\ chats'[1] = m.data
                /\ messages' = <<>>
       /\ \A q \in BagToSet(chatQueries) :
            (LoadChatsResponse(q) /\ ActiveChatFirst) => ActiveChatFirst'
      ]_vars

\* C26: the local chat list is ordered by updated_at descending.
C26_ChatsOrderedByUpdatedAt ==
    \A i, j \in 1..Len(chats) :
        i < j => chats[i].updated_at >= chats[j].updated_at

\* Every message of the local list is a row of the remote store.
LocalMessagesPersisted ==
    \A i \in 1..Len(messages) : \E k \in 1..Len(dbMessages) : dbMessages[k] = messages[i]

\* C27: a message is never in the local list without being persisted; and
\* once handleSendMessage has returned, merging the response of a poll that
\* carries what the store holds leaves the local list equal to the persisted
\* messages of the selected chat, those the pipeline persisted included.
C27_NoPartialConversationState ==
    /\ []LocalMessagesPersisted
    /\ [][\A p \in BagToSet(polls) :
             (/\ LoadMessagesResponse(p)
              /\ p.st = "ok"
              /\ p.data = GetMessages(p.chatId)
              /\ send.pc = "idle"
              /\ session # NoSession
              /\ selectedChatId # NoChatId)
                 => messages' = GetMessages(selectedChatId)
         ]_vars

\* The messages a send of "hello" answered with "hi there" is to yield:
\* the two rows it has inserted, the user message first.
HelloHiThere(list, saved) ==
    /\ Len(list) = 2
    /\ list[1] = dbMessages[saved[1]]
    /\ list[1].sender_type = "user"
    /\ list[1].content = <<"hello">>
    /\ list[2] = dbMessages[saved[2]]
    /\ list[2].sender_type = "bot"
    /\ list[2].content = ReplyText

\* C28: when handleSendMessage returns from a send of "hello" in a chat
\* without messages, the webhook having answered {response: "hi there"} and
\* both mutations having succeeded, the store holds for that chat the user
\* message "hello" followed by the bot message "hi there", and so does the
\* local list when that chat is the selected one.
C28_HelloThenHiThere ==
    [][(/\ send.pc = "bot"
        /\ send'.pc = "idle"
        /\ send.st = "ok"
        /\ send.content = ReplyText
        /\ dbMessages[send.saved[1]].content = <<"hello">>)
           => /\ HelloHiThere(GetMessages(send.chatId), send.saved)
              /\ (selectedChatId' = send.chatId /\ session' # NoSession)
                     => HelloHiThere(messages', send.saved)
      ]_vars

\* C29: the step in which loadMessages learns that its query has failed
\* changes nothing but the set of queries in flight: the message list, the
\* chat list, the selected chat, the session and the timers stay, nothing is
\* shown to the user; and every tick of a timer issues a new GET_MESSAGES
\* query for its chat.
C29_FailedPollChangesNothing ==
    [][/\ \A p \in BagToSet(polls) :
            (LoadMessagesResponse(p) /\ p.st = "err") =>
                /\ messages' = messages
                /\ chats' = chats
                /\ selectedChatId' = selectedChatId
                /\ session' = session
                /\ interval' = interval
                /\ loading' = loading
                /\ form' = form
       /\ \A i \in 1..Len(interval) :
            Tick(i) => InFlightFor(interval[i])' = InFlightFor(interval[i]) + 1
      ]_vars

\* The poll of the selected chat has failed while its messages are shown and
\* its timer runs.
C29_Witness ==
    /\ messages = StoredMessages
    /\ selectedChatId = 1
    /\ interval = <<1>>
    /\ \E p \in BagToSet(polls) : p.st = "err" /\ p.chatId = 1

\* C30: when signIn, signUp or refreshSession returns a session, the storage
\* key holds that session, field for field, whatever it held before, and a
\* getStoredSession call made before the session's expiresAt returns it.
C30_PersistedEqualsReturned ==
    [][(/\ auth.pc \in {"signIn", "signUp", "refresh"}
        /\ auth'.pc = "idle"
        /\ auth'.returned = "session")
           => /\ storage' = auth'.result
              /\ LessThan(clock', auth'.result.expiresAt)
                     => GetStoredSession(storage', clock') = auth'.result
      ]_vars

\* C31: every started send pipeline finishes and clears the in-flight flag,
\* also when the reply webhook never answers.
C31_SendEventuallyFinishes == loading ~> ~loading

\* C32: whenever the app is authenticated, the session it holds has not
\* expired (expiresAt > Date.now()).
C32_AuthenticatedSessionValid ==
    Authenticated => LessThan(clock, tokens.expiresAt)

\* C33: a failed createChat shows the user an error and leaves the chat
\* list, the active chat and the message list as they were, in
\* handleCreateChat and in handleNewChat.
C33_FailedCreateChatSurfaced ==
    [][\A m \in BagToSet(chatCreates) :
          (CreateChatResponse(m) \/ NewChatResponse(m)) /\ m.st = "err"
              => /\ alert' = CreateChatFailed
                 /\ UNCHANGED <<chats, selectedChatId, messages>>
      ]_vars

\* C34: every message of the local list belongs to the active chat, and the
\* list is empty when no chat is active.
C34_MessagesOfActiveChat ==
    \A i \in 1..Len(messages) : messages[i].chat_id = selectedChatId

\* C35: while nobody is signed in the conversation state is empty: no chat
\* in the list, no active chat, no message in the list, whatever responses
\* of earlier requests arrive.
C35_EmptyAfterSignOut ==
    session = NoSession =>
        chats = <<>> /\ selectedChatId = NoChatId /\ messages = <<>>

\* This step sends a request: handleSendMessage goes on to its next network
\* call, or a query or a create-chat mutation is added to those in flight.
RequestIssued ==
    \/ send'.pc # send.pc /\ send'.pc # "idle"
    \/ BagCardinality(polls') > BagCardinality(polls)
    \/ BagCardinality(chatQueries') > BagCardinality(chatQueries)
    \/ BagCardinality(chatCreates') > BagCardinality(chatCreates)

\* C36: while nobody is signed in no request is sent to the store or to the
\* webhook; a send that was suspended at a network call when the user
\* signed out does not go on.
C36_NoRequestAfterSignOut ==
    [][session = NoSession /\ session' = NoSession => ~RequestIssued]_vars

\* C37: handleSendMessage called while no chat is active, or while there is
\* no session, user or client, sends no request and leaves the message
\* list, the chat list and the in-flight flag as they are.
C37_SendWithoutChatIsNoOp ==
    [][\A content \in Contents :
          ( \/ HandleSendMessage(content)
                   /\ (selectedChatId = NoChatId \/ session = NoSession)
            \/ NhostHandleSendMessage(content) /\ selectedChatId = NoChatId )
          => /\ ~RequestIssued
             /\ UNCHANGED <<messages, chats, loading, dbChats, dbMessages>>
      ]_vars

\* handleSendMessage was called, and has returned at its guard, in an app
\* that is signed in and has no chat selected.
C37_Witness ==
    /\ send.st = "guard"
    /\ session # NoSession
    /\ selectedChatId = NoChatId
    /\ ~loading
====
